---------------------------- MODULE Spec2Model ----------------------------
(***************************************************************************)
(* Model of the 2D diagram editor (App + Canvas + utils/shapes +           *)
(* utils/drawing).  One action per event handler; every handler is taken   *)
(* as one atomic step (React re-renders between two events, so a handler   *)
(* always reads the state left by the previous one).                       *)
(*                                                                         *)
(* Numbers: JavaScript numbers are modelled as exact rationals [n, d]      *)
(* (d > 0, lowest terms); rounding of doubles is not modelled.  The only   *)
(* place where the code divides by zero (isPointInTriangle) is modelled    *)
(* with the IEEE outcomes NaN / +Infinity / -Infinity.                     *)
(*                                                                         *)
(* crypto.randomUUID() is modelled by a counter of fresh identifiers.      *)
(* Pointer events carry canvas-relative positions (clientX - rect.left).   *)
(* Rendering-only state (canvasSize, showAnnotations) is left out.         *)
(*                                                                         *)
(* Observers (not program state): commits counts updateHistory calls,      *)
(* lastChange names the operation behind the last setShapes call, gesture  *)
(* records a drag from its pointer-down on, viewChanges and toolChanges    *)
(* count zoom / pan steps and tool switches.                               *)
(*                                                                         *)
(* Three sessions are explored: Spec (drawing, selecting, dragging,        *)
(* deleting, clearing, undo / redo), SpecView (the same pointer handlers   *)
(* with the pan and annotate tools and the zoom buttons) and SpecAnnotate  *)
(* (SpecView with the clear button).                                       *)
(*                                                                         *)
(* Five more specifications apply one function at a time to chosen         *)
(* arguments: SpecPoints (updateShapePoints), SpecZoom (the zoom           *)
(* updaters), SpecCoords (getCanvasCoordinates against the canvas          *)
(* transform), SpecHit (isPointInShape on drawn shapes) and SpecMalformed  *)
(* (isPointInShape on shapes with fewer than two points).  Their call and  *)
(* its result are kept in probe; the editor stays in its initial state.    *)
(***************************************************************************)
EXTENDS Integers, Sequences, FiniteSets, TLC

(***************************************************************************)
(* Bounds of the model                                                     *)
(***************************************************************************)
\* number of updateHistory calls explored in one run
MaxCommits == 3
\* number of identifiers crypto.randomUUID hands out in one run
MaxIds == 2
\* number of view changes (zoom steps and pan moves) explored in one run
MaxViewChanges == 1
\* number of tool changes explored in one run
MaxToolChanges == 2
\* number of points of a freehand stroke
MaxFreehand == 2

\* canvas-relative pointer positions of the mouse events
Pointers == { <<100, 100>>, <<112, 116>> }

\* what prompt() hands back: <<>> is Cancel (null), otherwise the text
PromptResults == { <<>>, <<"">>, <<"note">> }

\* keys of the keyboard events
Keys == { "Delete", "Escape" }

(***************************************************************************)
(* Optional values: <<>> is null, <<v>> is the value v                     *)
(***************************************************************************)
None == <<>>

Some(v) == <<v>>

IsSome(o) == o # <<>>

Val(o) == o[1]

(***************************************************************************)
(* Exact rational arithmetic                                               *)
(***************************************************************************)
Abs(i) == IF i < 0 THEN -i ELSE i

Sign(i) == IF i < 0 THEN -1 ELSE IF i > 0 THEN 1 ELSE 0

RECURSIVE GCD(_, _)
GCD(a, b) == IF b = 0 THEN a ELSE GCD(b, a % b)

\* the rational n/d (d # 0) in lowest terms with a positive denominator
Rat(n, d) ==
    LET s == IF d < 0 THEN -1 ELSE 1
        g == GCD(Abs(n), Abs(d))
    IN  [n |-> (s * n) \div g, d |-> (s * d) \div g]

R(i) == [n |-> i, d |-> 1]

\* the factors are cancelled crosswise before they are multiplied, so that
\* the products stay as small as the result
RMul(a, b) ==
    LET g1 == GCD(Abs(a.n), b.d)
        g2 == GCD(Abs(b.n), a.d)
    IN  [n |-> (a.n \div g1) * (b.n \div g2), d |-> (a.d \div g2) * (b.d \div g1)]

\* a / b for b # 0
RDiv(a, b) ==
    RMul(a, IF b.n < 0 THEN [n |-> -b.d, d |-> -b.n] ELSE [n |-> b.d, d |-> b.n])

RAdd(a, b) ==
    LET g == GCD(a.d, b.d)
    IN  Rat(a.n * (b.d \div g) + b.n * (a.d \div g), (a.d \div g) * b.d)

RNeg(a) == [n |-> -a.n, d |-> a.d]

RSub(a, b) == RAdd(a, RNeg(b))

\* n1/d1 < n2/d2 (d1, d2 > 0) by comparing the continued fractions: no
\* product is formed
RECURSIVE FracLt(_, _, _, _)
FracLt(n1, d1, n2, d2) ==
    LET q1 == n1 \div d1
        q2 == n2 \div d2
        r1 == n1 % d1
        r2 == n2 % d2
    IN  IF q1 # q2 THEN q1 < q2
        ELSE IF r2 = 0 THEN FALSE
        ELSE IF r1 = 0 THEN TRUE
        ELSE FracLt(d2, r2, d1, r1)

RLt(a, b) == FracLt(a.n, a.d, b.n, b.d)

\* a < b in place of a <= b
RLe_Strict(a, b) == RLt(a, b)

RLe(a, b) == ~RLt(b, a)

RMin(a, b) == IF RLt(b, a) THEN b ELSE a

RMax(a, b) == IF RLt(a, b) THEN b ELSE a

RSign(a) == Sign(a.n)

RSq(a) == RMul(a, a)

Pt(x, y) == [x |-> x, y |-> y]


(***************************************************************************)
(* utils/shapes.ts                                                         *)
(***************************************************************************)
\* hit-test tolerance ("10px tolerance")
Tolerance == 10

DefaultColor == "#3B82F6"

DefaultStrokeWidth == 2

ShapeTypes == { "line", "rectangle", "circle", "triangle", "freehand" }

\* an identifier that is not fresh: every shape gets the same one
createShape_FixedId(id, type, startPoint) ==
    [ id          |-> 1,
      type        |-> type,
      points      |-> << startPoint >>,
      color       |-> DefaultColor,
      strokeWidth |-> DefaultStrokeWidth ]

createShape(id, type, startPoint) ==
    [ id          |-> id,
      type        |-> type,
      points      |-> << startPoint >>,
      color       |-> DefaultColor,
      strokeWidth |-> DefaultStrokeWidth ]

\* every type treated as freehand: the new point appended
updateShapePoints_AppendsAlways(shape, newPoint) ==
    [ shape EXCEPT !.points = Append(shape.points, newPoint) ]

\* a freehand point equal to the last one dropped
updateShapePoints_Deduplicates(shape, newPoint) ==
    CASE shape.type \in { "line", "rectangle", "circle", "triangle" } ->
            [ shape EXCEPT !.points = << shape.points[1], newPoint >> ]
      [] shape.type = "freehand" ->
            IF shape.points[Len(shape.points)] = newPoint THEN shape
            ELSE [ shape EXCEPT !.points = Append(shape.points, newPoint) ]
      [] OTHER -> shape

updateShapePoints(shape, newPoint) ==
    CASE shape.type \in { "line", "rectangle", "circle", "triangle" } ->
            [ shape EXCEPT !.points = << shape.points[1], newPoint >> ]
      [] shape.type = "freehand" ->
            [ shape EXCEPT !.points = Append(shape.points, newPoint) ]
      [] OTHER -> shape

\* (dx*dx + dy*dy): the square of the Euclidean distance of two points
DistSq(p, q) == RAdd(RSq(RSub(p.x, q.x)), RSq(RSub(p.y, q.y)))

\* the square of what distanceToLine returns (Math.sqrt is monotonic, so
\* "distance < 10" is "square of the distance < 100")
distanceToLineSq(point, lineStart, lineEnd) ==
    LET A == RSub(point.x, lineStart.x)
        B == RSub(point.y, lineStart.y)
        C == RSub(lineEnd.x, lineStart.x)
        D == RSub(lineEnd.y, lineStart.y)
        dot == RAdd(RMul(A, C), RMul(B, D))
        lenSq == RAdd(RMul(C, C), RMul(D, D))
    IN  IF lenSq = R(0)
        THEN RAdd(RMul(A, A), RMul(B, B))
        ELSE LET param == RMax(R(0), RMin(R(1), RDiv(dot, lenSq)))
                 xx == RAdd(lineStart.x, RMul(param, C))
                 yy == RAdd(lineStart.y, RMul(param, D))
             IN  DistSq(point, Pt(xx, yy))

\* sqrt(a) - sqrt(b) < t, the test of a filled disk: with l = a - b - t*t,
\* l < 0 or l*l < 4*t*t*b
AbsSqrtDiffLt_Disk(a, b, t) ==
    LET l == RSub(RSub(a, b), R(t * t))
    IN  \/ RLt(l, R(0))
        \/ RLt(RMul(l, l), RMul(R(4 * t * t), b))

\* |sqrt(a) - sqrt(b)| < t for rationals a, b >= 0 and an integer t > 0.
\* With l = a + b - t*t this is l < 2*sqrt(a*b): l < 0, or l = 0 < a*b, or
\* 0 < l and l*l < 4*a*b, which is compared as l/(4*a) < b/l so that no
\* fourth power is formed.
AbsSqrtDiffLt(a, b, t) ==
    LET l == RSub(RAdd(a, b), R(t * t))
    IN  \/ RLt(l, R(0))
        \/ /\ l = R(0)
           /\ a # R(0)
           /\ b # R(0)
        \/ /\ RLt(R(0), l)
           /\ a # R(0)
           /\ RLt(RDiv(l, RMul(R(4), a)), RDiv(b, l))

(***************************************************************************)
(* JavaScript division n / d.  The result is a number [k |-> "num", v],    *)
(* NaN [k |-> "nan"] or an infinity [k |-> "inf", s |-> 1 or -1];          *)
(* dNeg says that a zero divisor is -0.                                    *)
(***************************************************************************)
JsNum(v) == [k |-> "num", v |-> v]

JsNaN == [k |-> "nan"]

JsInf(s) == [k |-> "inf", s |-> s]

JsDiv(n, d, dNeg) ==
    IF d # R(0) THEN JsNum(RDiv(n, d))
    ELSE IF n = R(0) THEN JsNaN
    ELSE JsInf(RSign(n) * (IF dNeg THEN -1 ELSE 1))

\* a - b
JsSub(a, b) ==
    CASE a.k = "nan" \/ b.k = "nan" -> JsNaN
      [] a.k = "num" /\ b.k = "num" -> JsNum(RSub(a.v, b.v))
      [] a.k = "num" /\ b.k = "inf" -> JsInf(-b.s)
      [] a.k = "inf" /\ b.k = "num" -> a
      [] OTHER -> IF a.s = b.s THEN JsNaN ELSE a

\* a >= 0
JsGeZero(a) ==
    CASE a.k = "nan" -> FALSE
      [] a.k = "inf" -> a.s = 1
      [] OTHER -> RLe(R(0), a.v)

\* the product f1 * f2 of two differences is the zero -0
IsNegZeroProduct(f1, f2) ==
    /\ RMul(f1, f2) = R(0)
    /\ RSign(f1) + RSign(f2) = -1

\* a quotient with a zero denominator taken as 0
isPointInTriangle_ZeroDivIsZero(point, v1, v2, v3) ==
    LET y23 == RSub(v2.y, v3.y)
        x13 == RSub(v1.x, v3.x)
        x32 == RSub(v3.x, v2.x)
        y13 == RSub(v1.y, v3.y)
        y31 == RSub(v3.y, v1.y)
        px3 == RSub(point.x, v3.x)
        py3 == RSub(point.y, v3.y)
        denom == RAdd(RMul(y23, x13), RMul(x32, y13))
        quot(n) == IF denom = R(0) THEN JsNum(R(0)) ELSE JsNum(RDiv(n, denom))
        a == quot(RAdd(RMul(y23, px3), RMul(x32, py3)))
        b == quot(RAdd(RMul(y31, px3), RMul(x13, py3)))
        c == JsSub(JsSub(JsNum(R(1)), a), b)
    IN  JsGeZero(a) /\ JsGeZero(b) /\ JsGeZero(c)

isPointInTriangle(point, v1, v2, v3) ==
    LET y23 == RSub(v2.y, v3.y)
        x13 == RSub(v1.x, v3.x)
        x32 == RSub(v3.x, v2.x)
        y13 == RSub(v1.y, v3.y)
        y31 == RSub(v3.y, v1.y)
        px3 == RSub(point.x, v3.x)
        py3 == RSub(point.y, v3.y)
        denom == RAdd(RMul(y23, x13), RMul(x32, y13))
        \* a sum of two zeros is -0 only when both are -0
        dNeg == IsNegZeroProduct(y23, x13) /\ IsNegZeroProduct(x32, y13)
        a == JsDiv(RAdd(RMul(y23, px3), RMul(x32, py3)), denom, dNeg)
        b == JsDiv(RAdd(RMul(y31, px3), RMul(x13, py3)), denom, dNeg)
        c == JsSub(JsSub(JsNum(R(1)), a), b)
    IN  JsGeZero(a) /\ JsGeZero(b) /\ JsGeZero(c)

\* a shape with one point tested as if its missing second point were its
\* first: the guard points.length < 2 weakened to points.length < 1
isPointInShape_PadsMissingPoint(point, shape) ==
    LET points == IF Len(shape.points) = 1
                  THEN << shape.points[1], shape.points[1] >>
                  ELSE shape.points
        type == shape.type
    IN  CASE type = "line" ->
                IF Len(points) < 1 THEN FALSE
                ELSE RLt(distanceToLineSq(point, points[1], points[2]),
                         R(Tolerance * Tolerance))
          [] type = "rectangle" ->
                IF Len(points) < 1 THEN FALSE
                ELSE /\ RLe(RMin(points[1].x, points[2].x), point.x)
                     /\ RLe(point.x, RMax(points[1].x, points[2].x))
                     /\ RLe(RMin(points[1].y, points[2].y), point.y)
                     /\ RLe(point.y, RMax(points[1].y, points[2].y))
          [] type = "circle" ->
                IF Len(points) < 1 THEN FALSE
                ELSE AbsSqrtDiffLt(DistSq(point, points[1]),
                                   DistSq(points[2], points[1]), Tolerance)
          [] type = "triangle" ->
                IF Len(points) < 1 THEN FALSE
                ELSE isPointInTriangle(
                         point,
                         Pt(RAdd(points[1].x,
                                 RDiv(RSub(points[2].x, points[1].x), R(2))),
                            points[1].y),
                         Pt(points[1].x, points[2].y),
                         Pt(points[2].x, points[2].y))
          [] type = "freehand" ->
                \E i \in 1..Len(shape.points) :
                    RLt(DistSq(point, shape.points[i]),
                        R(Tolerance * Tolerance))
          [] OTHER -> FALSE

isPointInShape(point, shape) ==
    LET points == shape.points
        type == shape.type
    IN  CASE type = "line" ->
                IF Len(points) < 2 THEN FALSE
                ELSE RLt(distanceToLineSq(point, points[1], points[2]),
                         R(Tolerance * Tolerance))
          [] type = "rectangle" ->
                IF Len(points) < 2 THEN FALSE
                ELSE LET topLeft == points[1]
                         bottomRight == points[2]
                     IN  /\ RLe(RMin(topLeft.x, bottomRight.x), point.x)
                         /\ RLe(point.x, RMax(topLeft.x, bottomRight.x))
                         /\ RLe(RMin(topLeft.y, bottomRight.y), point.y)
                         /\ RLe(point.y, RMax(topLeft.y, bottomRight.y))
          [] type = "circle" ->
                IF Len(points) < 2 THEN FALSE
                ELSE LET center == points[1]
                         edge == points[2]
                     IN  AbsSqrtDiffLt(DistSq(point, center),
                                       DistSq(edge, center), Tolerance)
          [] type = "triangle" ->
                IF Len(points) < 2 THEN FALSE
                ELSE LET triangleStart == points[1]
                         triangleEnd == points[2]
                         width == RSub(triangleEnd.x, triangleStart.x)
                         height == RSub(triangleEnd.y, triangleStart.y)
                         centerX == RAdd(triangleStart.x, RDiv(width, R(2)))
                         topY == triangleStart.y
                         bottomY == RAdd(triangleStart.y, height)
                         leftX == triangleStart.x
                         rightX == triangleEnd.x
                     IN  isPointInTriangle(point, Pt(centerX, topY),
                                           Pt(leftX, bottomY), Pt(rightX, bottomY))
          [] type = "freehand" ->
                \E i \in 1..Len(points) :
                    RLt(DistSq(point, points[i]), R(Tolerance * Tolerance))
          [] OTHER -> FALSE

(***************************************************************************)
(* utils/drawing.ts                                                        *)
(***************************************************************************)
\* the division made before the subtraction: sx / zoom - offset.x
toWorld_DividesFirst(sx, sy, zoom, offset) ==
    Pt(RSub(RDiv(sx, zoom), offset.x), RSub(RDiv(sy, zoom), offset.y))

\* (sx - offset.x) / zoom, (sy - offset.y) / zoom: the world point under
\* the canvas position (sx, sy)
toWorld(sx, sy, zoom, offset) ==
    Pt(RDiv(RSub(sx, offset.x), zoom), RDiv(RSub(sy, offset.y), zoom))

\* px, py: the event position relative to the canvas (clientX - rect.left)
getCanvasCoordinates(px, py, zoom, offset) ==
    toWorld(R(px), R(py), zoom, offset)

\* ctx.translate(offset.x, offset.y); ctx.scale(zoom, zoom): the canvas
\* position at which the world point p is drawn
toScreen(p, zoom, offset) ==
    Pt(RAdd(RMul(p.x, zoom), offset.x), RAdd(RMul(p.y, zoom), offset.y))

(***************************************************************************)
(* State                                                                   *)
(***************************************************************************)
VARIABLES
    \* App
    shapes, annotations, selectedShapeId, currentTool, zoom, offset,
    history, historyIndex,
    \* Canvas
    isDrawing, currentShape, isPanning, lastPanPoint, isDragging, dragStart,
    \* the environment: identifiers handed out by crypto.randomUUID
    nextUuid,
    \* observers: the numbers of updateHistory calls, of view changes and of
    \* tool changes so far; the operation that made the last setShapes call
    \* ("draw", "drag", "keyDelete", "deleteClick", "clear", "undo", "redo");
    \* the drag gesture in progress
    commits, viewChanges, toolChanges, lastChange, gesture,
    \* the function call under study in the specifications that apply one
    \* function of utils/shapes or utils/drawing to chosen arguments; None
    \* while the editor runs
    probe

appVars == << shapes, annotations, selectedShapeId, currentTool, zoom, offset,
              history, historyIndex >>

canvasVars == << isDrawing, currentShape, isPanning, lastPanPoint,
                 isDragging, dragStart >>

vars == << shapes, annotations, selectedShapeId, currentTool, zoom, offset,
           history, historyIndex, isDrawing, currentShape, isPanning,
           lastPanPoint, isDragging, dragStart, nextUuid, commits, viewChanges,
           toolChanges, lastChange, gesture, probe >>

Tools == { "select", "line", "rectangle", "circle", "triangle", "freehand",
           "annotate", "pan" }

\* the state of a freshly mounted editor
InitEditor ==
    /\ shapes = << >>
    /\ annotations = << >>
    /\ selectedShapeId = None
    /\ currentTool = "select"
    /\ zoom = R(1)
    /\ offset = Pt(R(100), R(100))
    /\ history = << << >> >>
    /\ historyIndex = 0
    /\ isDrawing = FALSE
    /\ currentShape = None
    /\ isPanning = FALSE
    /\ lastPanPoint = << 0, 0 >>
    /\ isDragging = FALSE
    /\ dragStart = None
    /\ nextUuid = 0
    /\ commits = 0
    /\ viewChanges = 0
    /\ toolChanges = 0
    /\ lastChange = "init"
    /\ gesture = None

Init ==
    /\ InitEditor
    /\ probe = None

\* the editor's own state, left alone by the function calls under study
editorVars == << appVars, canvasVars, nextUuid, commits, viewChanges,
                toolChanges, lastChange, gesture >>

(***************************************************************************)
(* App: edit history                                                       *)
(***************************************************************************)
\* the history pushed without the slice: the undone snapshots stay
newHistory_NoTruncate(newShapes) ==
    Append(history, newShapes)

\* history.slice(historyIndex) in place of history.slice(0, historyIndex + 1)
newHistory_SliceFrom(newShapes) ==
    Append(SubSeq(history, historyIndex + 1, Len(history)), newShapes)

\* the snapshot at the index shares the edited collection: the new shapes
\* show through in it and are appended as well
newHistory_AliasesCurrent(newShapes) ==
    Append(Append(SubSeq(history, 1, historyIndex), newShapes), newShapes)

\* history.slice(0, historyIndex + 1) with [...newShapes] pushed
newHistory(newShapes) ==
    Append(SubSeq(history, 1, historyIndex + 1), newShapes)

\* setHistoryIndex(newHistory.length) in place of newHistory.length - 1
updateHistory_IndexPastEnd(newShapes) ==
    /\ commits < MaxCommits
    /\ history' = newHistory(newShapes)
    /\ historyIndex' = Len(newHistory(newShapes))
    /\ commits' = commits + 1

updateHistory(newShapes) ==
    /\ commits < MaxCommits
    /\ history' = newHistory(newShapes)
    /\ historyIndex' = Len(newHistory(newShapes)) - 1
    /\ commits' = commits + 1

\* the history updated and setShapes(newShapes) left out
handleShapesChange_HistoryOnly(newShapes) ==
    /\ UNCHANGED shapes
    /\ updateHistory(newShapes)

handleShapesChange(newShapes) ==
    /\ shapes' = newShapes
    /\ updateHistory(newShapes)

canUndo == historyIndex > 0

canRedo == historyIndex < Len(history) - 1

\* an undo that also cuts the history after the new index
handleUndo_DropsFuture ==
    /\ IF historyIndex > 0
       THEN /\ historyIndex' = historyIndex - 1
            /\ shapes' = history[(historyIndex - 1) + 1]
            /\ history' = SubSeq(history, 1, historyIndex)
            /\ lastChange' = "undo"
       ELSE UNCHANGED << historyIndex, shapes, history, lastChange >>
    /\ gesture' = None
    /\ UNCHANGED << annotations, selectedShapeId, currentTool, zoom, offset,
                    canvasVars, nextUuid, commits, viewChanges, probe,
                    toolChanges >>

\* the guard historyIndex >= 0 in place of historyIndex > 0
handleUndo_NoBoundary ==
    /\ IF historyIndex >= 0
       THEN /\ historyIndex' = historyIndex - 1
            /\ shapes' = IF historyIndex > 0
                         THEN history[(historyIndex - 1) + 1] ELSE << >>
            /\ lastChange' = "undo"
       ELSE UNCHANGED << historyIndex, shapes, lastChange >>
    /\ gesture' = None
    /\ UNCHANGED << annotations, selectedShapeId, currentTool, zoom, offset,
                    history, canvasVars, nextUuid, commits, viewChanges, probe,
                    toolChanges >>

\* an undo that resets the selection as well: setSelectedShapeId(null)
handleUndo_ClearsSelection ==
    /\ IF historyIndex > 0
       THEN /\ historyIndex' = historyIndex - 1
            /\ shapes' = history[(historyIndex - 1) + 1]
            /\ selectedShapeId' = None
            /\ lastChange' = "undo"
       ELSE UNCHANGED << historyIndex, shapes, selectedShapeId, lastChange >>
    /\ gesture' = None
    /\ UNCHANGED << annotations, currentTool, zoom, offset,
                    history, canvasVars, nextUuid, commits, viewChanges, probe,
                    toolChanges >>

handleUndo ==
    /\ IF historyIndex > 0
       THEN /\ historyIndex' = historyIndex - 1
            /\ shapes' = history[(historyIndex - 1) + 1]
            /\ lastChange' = "undo"
       ELSE UNCHANGED << historyIndex, shapes, lastChange >>
    /\ gesture' = None
    /\ UNCHANGED << annotations, selectedShapeId, currentTool, zoom, offset,
                    history, canvasVars, nextUuid, commits, viewChanges, probe,
                    toolChanges >>

\* setShapes(history[historyIndex]) in place of history[historyIndex + 1]
handleRedo_StaleSnapshot ==
    /\ IF historyIndex < Len(history) - 1
       THEN /\ historyIndex' = historyIndex + 1
            /\ shapes' = history[historyIndex + 1]
            /\ lastChange' = "redo"
       ELSE UNCHANGED << historyIndex, shapes, lastChange >>
    /\ gesture' = None
    /\ UNCHANGED << annotations, selectedShapeId, currentTool, zoom, offset,
                    history, canvasVars, nextUuid, commits, viewChanges, probe,
                    toolChanges >>

handleRedo ==
    /\ IF historyIndex < Len(history) - 1
       THEN /\ historyIndex' = historyIndex + 1
            /\ shapes' = history[(historyIndex + 1) + 1]
            /\ lastChange' = "redo"
       ELSE UNCHANGED << historyIndex, shapes, lastChange >>
    /\ gesture' = None
    /\ UNCHANGED << annotations, selectedShapeId, currentTool, zoom, offset,
                    history, canvasVars, nextUuid, commits, viewChanges, probe,
                    toolChanges >>

\* setShapes([]) without the updateHistory call
handleClear_NoCommit ==
    /\ shapes' = << >>
    /\ UNCHANGED << history, historyIndex, commits >>
    /\ annotations' = << >>
    /\ selectedShapeId' = None
    /\ lastChange' = "clear"
    /\ gesture' = None
    /\ UNCHANGED << currentTool, zoom, offset, canvasVars, nextUuid, viewChanges,
                    probe, toolChanges >>

handleClear ==
    /\ handleShapesChange(<< >>)
    /\ annotations' = << >>
    /\ selectedShapeId' = None
    /\ lastChange' = "clear"
    /\ gesture' = None
    /\ UNCHANGED << currentTool, zoom, offset, canvasVars, nextUuid, viewChanges,
                    probe, toolChanges >>

(***************************************************************************)
(* App: zoom, tool, delete button                                          *)
(***************************************************************************)
ZoomFactor == Rat(12, 10)

ZoomMax == R(3)

ZoomMin == Rat(1, 10)

\* prev => prev * 1.2, the cap left out
zoomIn_NoCap(prev) == RMul(prev, ZoomFactor)

\* prev => Math.min(prev * 1.2, 3)
zoomIn(prev) == RMin(RMul(prev, ZoomFactor), ZoomMax)

\* prev => Math.max(prev / 1.2, 0.1)
zoomOut(prev) == RMax(RDiv(prev, ZoomFactor), ZoomMin)

\* one more zoom step or pan move
ViewChange ==
    /\ viewChanges < MaxViewChanges
    /\ viewChanges' = viewChanges + 1

handleZoomIn ==
    /\ zoom' = zoomIn(zoom)
    /\ ViewChange
    /\ gesture' = None
    /\ UNCHANGED << shapes, annotations, selectedShapeId, currentTool, offset,
                    history, historyIndex, canvasVars, nextUuid, commits,
                    toolChanges, lastChange, probe >>

handleZoomOut ==
    /\ zoom' = zoomOut(zoom)
    /\ ViewChange
    /\ gesture' = None
    /\ UNCHANGED << shapes, annotations, selectedShapeId, currentTool, offset,
                    history, historyIndex, canvasVars, nextUuid, commits,
                    toolChanges, lastChange, probe >>

setCurrentTool(tool) ==
    /\ currentTool' = tool
    /\ IF tool # currentTool
       THEN /\ toolChanges < MaxToolChanges
            /\ toolChanges' = toolChanges + 1
       ELSE UNCHANGED toolChanges
    /\ gesture' = None
    /\ UNCHANGED << shapes, annotations, selectedShapeId, zoom, offset,
                    history, historyIndex, canvasVars, nextUuid, commits,
                    viewChanges, probe, lastChange >>

\* shapes.filter(shape => shape.id === selectedShapeId)
RECURSIVE withoutShape_KeepsSelected(_, _)
withoutShape_KeepsSelected(ss, id) ==
    IF ss = << >> THEN << >>
    ELSE IF Head(ss).id = id
         THEN << Head(ss) >> \o withoutShape_KeepsSelected(Tail(ss), id)
    ELSE withoutShape_KeepsSelected(Tail(ss), id)

\* shapes.filter(shape => shape.id !== selectedShapeId)
RECURSIVE withoutShape(_, _)
withoutShape(ss, id) ==
    IF ss = << >> THEN << >>
    ELSE IF Head(ss).id # id THEN << Head(ss) >> \o withoutShape(Tail(ss), id)
    ELSE withoutShape(Tail(ss), id)

\* the "Delete Shape" button of the properties panel
deleteShapeClick ==
    /\ IsSome(selectedShapeId)
    /\ handleShapesChange(withoutShape(shapes, Val(selectedShapeId)))
    /\ selectedShapeId' = None
    /\ lastChange' = "deleteClick"
    /\ gesture' = None
    /\ UNCHANGED << annotations, currentTool, zoom, offset, canvasVars,
                    nextUuid, viewChanges, probe,
                    toolChanges >>

(***************************************************************************)
(* Canvas: pointer and keyboard handlers                                   *)
(***************************************************************************)
DrawingTools == { "line", "rectangle", "circle", "triangle", "freehand" }

Idle == ~isPanning /\ ~isDrawing /\ ~isDragging

\* the last shape, in array order, that contains point
RECURSIVE findShape_LastMatch(_, _)
findShape_LastMatch(ss, point) ==
    IF ss = << >> THEN None
    ELSE LET later == findShape_LastMatch(Tail(ss), point)
         IN  IF IsSome(later) THEN later
             ELSE IF isPointInShape(point, Head(ss)) THEN Some(Head(ss))
             ELSE None

\* shapes.find(pred): the first shape, in array order, that contains point
RECURSIVE findShape(_, _)
findShape(ss, point) ==
    IF ss = << >> THEN None
    ELSE IF isPointInShape(point, Head(ss)) THEN Some(Head(ss))
    ELSE findShape(Tail(ss), point)

\* the drag gesture a pointer-down on a shape starts, as seen by an observer
StartDrag(point, shape) ==
    Some([ fromIdle |-> Idle,
           commits0 |-> commits,
           origin   |-> point,
           at       |-> point,
           shape0   |-> shape,
           moves    |-> 0,
           done     |-> FALSE ])

MouseDownPan(p) ==
    /\ currentTool = "pan"
    /\ isPanning' = TRUE
    /\ lastPanPoint' = p
    /\ gesture' = None
    /\ UNCHANGED << appVars, isDrawing, currentShape, isDragging, dragStart,
                    nextUuid, commits, viewChanges, probe,
                    toolChanges >>

\* a selection that goes through onShapesChange(shapes)
MouseDownSelect_Commits(p) ==
    LET point == getCanvasCoordinates(p[1], p[2], zoom, offset)
        clickedShape == findShape(shapes, point)
    IN  /\ currentTool = "select"
        /\ IF IsSome(clickedShape)
           THEN /\ selectedShapeId' = Some(Val(clickedShape).id)
                /\ isDragging' = TRUE
                /\ dragStart' = Some(point)
                /\ gesture' = StartDrag(point, Val(clickedShape))
                /\ handleShapesChange(shapes)
           ELSE /\ selectedShapeId' = None
                /\ gesture' = None
                /\ UNCHANGED << isDragging, dragStart, shapes, history,
                                historyIndex, commits >>
        /\ UNCHANGED << annotations, currentTool, zoom, offset,
                        isDrawing, currentShape,
                        isPanning, lastPanPoint, nextUuid, viewChanges, probe,
                        toolChanges >>

MouseDownSelect(p) ==
    LET point == getCanvasCoordinates(p[1], p[2], zoom, offset)
        clickedShape == findShape(shapes, point)
    IN  /\ currentTool = "select"
        /\ IF IsSome(clickedShape)
           THEN /\ selectedShapeId' = Some(Val(clickedShape).id)
                /\ isDragging' = TRUE
                /\ dragStart' = Some(point)
                /\ gesture' = StartDrag(point, Val(clickedShape))
           ELSE /\ selectedShapeId' = None
                /\ gesture' = None
                /\ UNCHANGED << isDragging, dragStart >>
        /\ UNCHANGED << shapes, annotations, currentTool, zoom, offset,
                        history, historyIndex, isDrawing, currentShape,
                        isPanning, lastPanPoint, nextUuid, commits, viewChanges,
                        probe, toolChanges >>

\* the prompt result tested against null only: if (text !== null)
MouseDownAnnotate_KeepsEmpty(p, text) ==
    LET point == getCanvasCoordinates(p[1], p[2], zoom, offset)
    IN  /\ currentTool = "annotate"
        /\ IF IsSome(text)
           THEN /\ nextUuid < MaxIds
                /\ nextUuid' = nextUuid + 1
                /\ annotations' = Append(annotations,
                                         [ id   |-> nextUuid + 1,
                                           x    |-> point.x,
                                           y    |-> point.y,
                                           text |-> Val(text) ])
           ELSE UNCHANGED << annotations, nextUuid >>
        /\ gesture' = None
        /\ UNCHANGED << shapes, selectedShapeId, currentTool, zoom, offset,
                        history, historyIndex, canvasVars, commits, viewChanges,
                        probe, toolChanges >>

\* text: what prompt("Enter annotation text:") returned
MouseDownAnnotate(p, text) ==
    LET point == getCanvasCoordinates(p[1], p[2], zoom, offset)
    IN  /\ currentTool = "annotate"
        /\ IF IsSome(text) /\ Val(text) # ""
           THEN /\ nextUuid < MaxIds
                /\ nextUuid' = nextUuid + 1
                /\ annotations' = Append(annotations,
                                         [ id   |-> nextUuid + 1,
                                           x    |-> point.x,
                                           y    |-> point.y,
                                           text |-> Val(text) ])
           ELSE UNCHANGED << annotations, nextUuid >>
        /\ gesture' = None
        /\ UNCHANGED << shapes, selectedShapeId, currentTool, zoom, offset,
                        history, historyIndex, canvasVars, commits, viewChanges,
                        probe, toolChanges >>

MouseDownDraw(p) ==
    LET point == getCanvasCoordinates(p[1], p[2], zoom, offset)
    IN  /\ currentTool \in DrawingTools
        /\ nextUuid < MaxIds
        /\ nextUuid' = nextUuid + 1
        /\ isDrawing' = TRUE
        /\ currentShape' = Some(createShape(nextUuid + 1, currentTool, point))
        /\ gesture' = None
        /\ UNCHANGED << appVars, isPanning, lastPanPoint, isDragging,
                        dragStart, commits, viewChanges, probe,
                    toolChanges >>

handleMouseDown(p) ==
    /\ UNCHANGED lastChange
    /\ IF currentTool = "pan" THEN MouseDownPan(p)
       ELSE IF currentTool = "select" THEN MouseDownSelect(p)
       ELSE IF currentTool = "annotate"
       THEN \E text \in PromptResults : MouseDownAnnotate(p, text)
       ELSE MouseDownDraw(p)

\* every shape moved, the test shape.id === selectedShapeId left out
RECURSIVE translateShape_All(_, _, _, _)
translateShape_All(ss, id, deltaX, deltaY) ==
    IF ss = << >> THEN << >>
    ELSE LET shape == Head(ss)
             moved == [ shape EXCEPT !.points =
                          [ i \in 1..Len(shape.points) |->
                              Pt(RAdd(shape.points[i].x, deltaX),
                                 RAdd(shape.points[i].y, deltaY)) ] ]
         IN  << moved >> \o translateShape_All(Tail(ss), id, deltaX, deltaY)

\* the selected shape moved by (deltaX, deltaY), every other shape as it is
RECURSIVE translateShape(_, _, _, _)
translateShape(ss, id, deltaX, deltaY) ==
    IF ss = << >> THEN << >>
    ELSE LET shape == Head(ss)
             moved == [ shape EXCEPT !.points =
                          [ i \in 1..Len(shape.points) |->
                              Pt(RAdd(shape.points[i].x, deltaX),
                                 RAdd(shape.points[i].y, deltaY)) ] ]
         IN  << IF shape.id = id THEN moved ELSE shape >>
                \o translateShape(Tail(ss), id, deltaX, deltaY)

\* the observer's view of a pointer-move: the drag goes on while the
\* handler's drag branch runs
MoveDrag(point, dragged) ==
    IF IsSome(gesture) /\ ~Val(gesture).done /\ dragged
    THEN Some([ Val(gesture) EXCEPT !.moves = @ + 1, !.at = point ])
    ELSE None

MouseMovePan(p) ==
    /\ isPanning
    /\ ViewChange
    /\ offset' = Pt(RAdd(offset.x, R(p[1] - lastPanPoint[1])),
                    RAdd(offset.y, R(p[2] - lastPanPoint[2])))
    /\ lastPanPoint' = p
    /\ gesture' = None
    /\ UNCHANGED << shapes, annotations, selectedShapeId, currentTool, zoom,
                    history, historyIndex, isDrawing, currentShape, isPanning,
                    isDragging, dragStart, nextUuid, commits, toolChanges,
                    lastChange, probe >>

MouseMoveDrawDrag(p) ==
    LET point == getCanvasCoordinates(p[1], p[2], zoom, offset)
        drawing == isDrawing /\ IsSome(currentShape)
        dragging == isDragging /\ IsSome(selectedShapeId) /\ IsSome(dragStart)
    IN  /\ ~isPanning
        /\ IF drawing
           THEN /\ Val(currentShape).type = "freehand"
                   => Len(Val(currentShape).points) < MaxFreehand
                /\ currentShape' =
                       Some(updateShapePoints(Val(currentShape), point))
           ELSE UNCHANGED currentShape
        /\ IF dragging
           THEN /\ handleShapesChange(
                       translateShape(shapes, Val(selectedShapeId),
                                      RSub(point.x, Val(dragStart).x),
                                      RSub(point.y, Val(dragStart).y)))
                /\ dragStart' = Some(point)
                /\ lastChange' = "drag"
           ELSE UNCHANGED << shapes, history, historyIndex, commits,
                             dragStart, lastChange >>
        /\ gesture' = MoveDrag(point, dragging)
        /\ UNCHANGED << annotations, selectedShapeId, currentTool, zoom,
                        offset, isDrawing, isPanning, lastPanPoint,
                        isDragging, nextUuid, viewChanges, probe,
                    toolChanges >>

handleMouseMove(p) ==
    IF isPanning THEN MouseMovePan(p) ELSE MouseMoveDrawDrag(p)

\* the observer's view of a pointer-up
EndDrag ==
    IF IsSome(gesture) /\ ~Val(gesture).done /\ ~isPanning
    THEN Some([ Val(gesture) EXCEPT !.done = TRUE ])
    ELSE None

MouseUpPan ==
    /\ isPanning
    /\ isPanning' = FALSE
    /\ UNCHANGED << appVars, isDrawing, currentShape, lastPanPoint,
                    isDragging, dragStart, nextUuid, commits, viewChanges,
                    probe, toolChanges, lastChange >>

\* the finished shape put in front of the collection:
\* onShapesChange([currentShape, ...shapes])
MouseUpDrawDrag_Prepends ==
    /\ ~isPanning
    /\ IF isDrawing /\ IsSome(currentShape)
       THEN /\ handleShapesChange(<< Val(currentShape) >> \o shapes)
            /\ currentShape' = None
            /\ isDrawing' = FALSE
            /\ lastChange' = "draw"
       ELSE UNCHANGED << shapes, history, historyIndex, commits,
                         currentShape, isDrawing, lastChange >>
    /\ isDragging' = FALSE
    /\ dragStart' = None
    /\ UNCHANGED << annotations, selectedShapeId, currentTool, zoom, offset,
                    isPanning, lastPanPoint, nextUuid, viewChanges, probe,
                    toolChanges >>

MouseUpDrawDrag ==
    /\ ~isPanning
    /\ IF isDrawing /\ IsSome(currentShape)
       THEN /\ handleShapesChange(Append(shapes, Val(currentShape)))
            /\ currentShape' = None
            /\ isDrawing' = FALSE
            /\ lastChange' = "draw"
       ELSE UNCHANGED << shapes, history, historyIndex, commits,
                         currentShape, isDrawing, lastChange >>
    /\ isDragging' = FALSE
    /\ dragStart' = None
    /\ UNCHANGED << annotations, selectedShapeId, currentTool, zoom, offset,
                    isPanning, lastPanPoint, nextUuid, viewChanges, probe,
                    toolChanges >>

handleMouseUp ==
    /\ gesture' = EndDrag
    /\ IF isPanning THEN MouseUpPan ELSE MouseUpDrawDrag

handleKeyDown(key) ==
    /\ IF key = "Delete" /\ IsSome(selectedShapeId)
       THEN /\ handleShapesChange(withoutShape(shapes, Val(selectedShapeId)))
            /\ selectedShapeId' = None
            /\ lastChange' = "keyDelete"
       ELSE UNCHANGED << shapes, history, historyIndex, commits,
                         selectedShapeId, lastChange >>
    /\ gesture' = None
    /\ UNCHANGED << annotations, currentTool, zoom, offset, canvasVars,
                    nextUuid, viewChanges, probe,
                    toolChanges >>

(***************************************************************************)
(* The editor in an editing session: the user draws with the rectangle     *)
(* and freehand tools, selects, drags, deletes, undoes, redoes and clears, *)
(* in any order and with any pointer-up missing.                           *)
(***************************************************************************)
EditTools == { "select", "rectangle", "freehand" }

Next ==
    \/ \E p \in Pointers : handleMouseDown(p)
    \/ \E p \in Pointers : handleMouseMove(p)
    \/ handleMouseUp
    \/ \E key \in Keys : handleKeyDown(key)
    \/ \E tool \in EditTools : setCurrentTool(tool)
    \/ handleUndo
    \/ handleRedo
    \/ handleClear
    \/ deleteShapeClick

Spec == Init /\ [][Next]_vars

(***************************************************************************)
(* The editor in a viewing session: the user pans, zooms, annotates and    *)
(* selects, draws rectangles, undoes and redoes.                           *)
(***************************************************************************)
ViewTools == { "select", "rectangle", "annotate", "pan" }

NextView ==
    \/ \E p \in Pointers : handleMouseDown(p)
    \/ \E p \in Pointers : handleMouseMove(p)
    \/ handleMouseUp
    \/ \E tool \in ViewTools : setCurrentTool(tool)
    \/ handleUndo
    \/ handleRedo
    \/ handleZoomIn
    \/ handleZoomOut

SpecView == Init /\ [][NextView]_vars

(***************************************************************************)
(* The editor in an annotating session: the user annotates, draws          *)
(* rectangles, selects, pans, zooms, clears, undoes and redoes.            *)
(***************************************************************************)
NextAnnotate ==
    \/ \E p \in Pointers : handleMouseDown(p)
    \/ \E p \in Pointers : handleMouseMove(p)
    \/ handleMouseUp
    \/ \E tool \in ViewTools : setCurrentTool(tool)
    \/ handleUndo
    \/ handleRedo
    \/ handleClear
    \/ handleZoomIn
    \/ handleZoomOut

SpecAnnotate == Init /\ [][NextAnnotate]_vars

(***************************************************************************)
(* updateShapePoints applied again and again to a shape made by            *)
(* createShape, as handleMouseMove does while a shape is drawn.  probe     *)
(* holds the shape, the point it was created with and the points passed    *)
(* so far.                                                                 *)
(***************************************************************************)
\* number of updateShapePoints calls on one shape
MaxCalls == 3

\* world points passed to createShape and updateShapePoints
PathPoints == { Pt(R(0), R(0)), Pt(R(12), R(16)), Pt(R(-5), R(3)) }

InitPoints ==
    /\ InitEditor
    /\ \E type \in ShapeTypes, startPoint \in PathPoints :
         probe = Some([ shape  |-> createShape(1, type, startPoint),
                        anchor |-> startPoint,
                        args   |-> << >> ])

\* setCurrentShape(updateShapePoints(currentShape, point))
callUpdateShapePoints(newPoint) ==
    /\ IsSome(probe)
    /\ Len(Val(probe).args) < MaxCalls
    /\ probe' = Some([ Val(probe) EXCEPT
                         !.shape = updateShapePoints(@, newPoint),
                         !.args = Append(@, newPoint) ])
    /\ UNCHANGED editorVars

NextPoints ==
    \E newPoint \in PathPoints : callUpdateShapePoints(newPoint)

SpecPoints == InitPoints /\ [][NextPoints]_vars

(***************************************************************************)
(* The zoom buttons pressed again and again.  probe holds the zoom factor, *)
(* the factor the run began with and the number of presses.  A run begins  *)
(* at 1 (the initial factor), at 3 (where seven zoom-ins from 1 end) or at *)
(* 0.1 (where thirteen zoom-outs from 1 end).                              *)
(***************************************************************************)
\* number of presses of a zoom button in one run
MaxZoomSteps == 8

ZoomStarts == { R(1), ZoomMax, ZoomMin }

InitZoom ==
    /\ InitEditor
    /\ \E z \in ZoomStarts :
         probe = Some([ zoom |-> z, from |-> z, steps |-> 0 ])

\* setZoom(updater)
setZoom(newZoom) ==
    /\ IsSome(probe)
    /\ Val(probe).steps < MaxZoomSteps
    /\ probe' = Some([ Val(probe) EXCEPT !.zoom = newZoom, !.steps = @ + 1 ])
    /\ UNCHANGED editorVars

pressZoomIn == setZoom(zoomIn(Val(probe).zoom))

pressZoomOut == setZoom(zoomOut(Val(probe).zoom))

NextZoom ==
    \/ pressZoomIn
    \/ pressZoomOut

SpecZoom == InitZoom /\ [][NextZoom]_vars

(***************************************************************************)
(* A world point drawn under a view (zoom, offset) and the canvas position *)
(* it is drawn at mapped back by getCanvasCoordinates.  probe holds the    *)
(* point, the view, the canvas position and the point mapped back.  The    *)
(* arithmetic is exact: the rounding of doubles is not modelled.           *)
(***************************************************************************)
WorldPoints == { Pt(R(0), R(0)), Pt(R(12), R(16)),
                 Pt(Rat(-7, 2), R(3)), Pt(R(50), Rat(-1, 3)) }

\* offsets: the initial one, after a pan by (12, 16), after a pan by
\* (-112, -116)
Offsets == { Pt(R(100), R(100)), Pt(R(112), R(116)), Pt(R(-12), R(-16)) }

\* zoom factors that zoom steps from 1 reach
Zooms == { ZoomMin, Rat(25, 36), Rat(5, 6), R(1), Rat(6, 5), Rat(36, 25),
           Rat(5, 2), ZoomMax }

InitCoords ==
    /\ InitEditor
    /\ \E p \in WorldPoints, o \in Offsets, z \in Zooms :
         probe = Some([ p |-> p, offset |-> o, zoom |-> z,
                        screen |-> None, world |-> None ])

\* the point drawn: where it lands on the canvas
callToScreen ==
    /\ IsSome(probe)
    /\ Val(probe).screen = None
    /\ probe' = Some([ Val(probe) EXCEPT
                         !.screen = Some(toScreen(Val(probe).p,
                                                  Val(probe).zoom,
                                                  Val(probe).offset)) ])
    /\ UNCHANGED editorVars

\* a pointer event at that canvas position
callGetCanvasCoordinates ==
    /\ IsSome(probe)
    /\ IsSome(Val(probe).screen)
    /\ Val(probe).world = None
    /\ probe' = Some([ Val(probe) EXCEPT
                         !.world = Some(toWorld(Val(Val(probe).screen).x,
                                                Val(Val(probe).screen).y,
                                                Val(probe).zoom,
                                                Val(probe).offset)) ])
    /\ UNCHANGED editorVars

NextCoords ==
    \/ callToScreen
    \/ callGetCanvasCoordinates

SpecCoords == InitCoords /\ [][NextCoords]_vars

(***************************************************************************)
(* isPointInShape applied to a query point and a rectangle, circle or      *)
(* triangle drawn from one corner point to another (createShape at the     *)
(* first, updateShapePoints with the second).  probe holds the shape, the  *)
(* query point and the result.                                             *)
(***************************************************************************)
HitTypes == { "rectangle", "circle", "triangle" }

\* world points a shape is drawn from and to
CornerPoints == { Pt(R(0), R(0)), Pt(R(100), R(50)), Pt(R(10), R(0)),
                  Pt(R(6), R(8)), Pt(R(0), R(50)), Pt(R(100), R(0)),
                  Pt(R(6), R(0)) }

\* world points of pointer-downs
QueryPoints == { Pt(R(50), R(25)), Pt(R(150), R(25)), Pt(R(0), R(0)),
                 Pt(R(10), R(0)), Pt(R(20), R(0)), Pt(R(100), R(50)),
                 Pt(R(50), R(0)), Pt(R(0), R(25)), Pt(R(0), R(8)) }

InitHit ==
    /\ InitEditor
    /\ \E type \in HitTypes, a \in CornerPoints, b \in CornerPoints,
          point \in QueryPoints :
         probe = Some([ shape |-> updateShapePoints(createShape(1, type, a), b),
                        point |-> point,
                        hit   |-> None ])

\* shapes.find((shape) => isPointInShape(point, shape)) on that shape
callIsPointInShape ==
    /\ IsSome(probe)
    /\ Val(probe).hit = None
    /\ probe' = Some([ Val(probe) EXCEPT
                         !.hit = Some(isPointInShape(Val(probe).point,
                                                     Val(probe).shape)) ])
    /\ UNCHANGED editorVars

NextHit == callIsPointInShape

SpecHit == InitHit /\ [][NextHit]_vars

(***************************************************************************)
(* isPointInShape applied to a query point and a shape of any type with no *)
(* point or one point.  createShape makes a shape with one point; the type *)
(* Shape admits an empty point list.  probe holds the shape, the query     *)
(* point and the result.                                                   *)
(***************************************************************************)
\* the point lists with fewer than two points
ShortPointLists == { << >> } \cup { << a >> : a \in CornerPoints }

InitMalformed ==
    /\ InitEditor
    /\ \E type \in ShapeTypes, points \in ShortPointLists,
          point \in QueryPoints :
         probe = Some([ shape |-> [ createShape(1, type, Pt(R(0), R(0)))
                                      EXCEPT !.points = points ],
                        point |-> point,
                        hit   |-> None ])

NextMalformed == callIsPointInShape

SpecMalformed == InitMalformed /\ [][NextMalformed]_vars

(***************************************************************************)
(* Properties                                                              *)
(***************************************************************************)
CommitKinds == { "draw", "drag", "keyDelete", "deleteClick", "clear" }

TwoPointTypes == { "line", "rectangle", "circle", "triangle" }

\* C1: a complete drag gesture started from Idle (pointer-down on a shape,
\* n pointer-moves, pointer-up) makes exactly one history commit: none while
\* the pointer moves, one at the pointer-up.
C1_DragCommitsOnce ==
    (IsSome(gesture) /\ Val(gesture).fromIdle)
        => commits - Val(gesture).commits0
               = (IF Val(gesture).done THEN 1 ELSE 0)

\* C2: the history is never empty and the history index is always a
\* position of it: 0 <= historyIndex <= Len(history) - 1.
C2_IndexInRange ==
    /\ Len(history) >= 1
    /\ 0 <= historyIndex
    /\ historyIndex <= Len(history) - 1

\* undone all the way back after two commits
C2_Witness ==
    /\ lastChange = "undo"
    /\ historyIndex = 0
    /\ Len(history) = 3

\* C6: the snapshot at history position 0 is always the empty shape set.
C6_FirstSnapshotEmpty == history[1] = << >>

\* commit, undo, commit (the truncation), then undone back to position 0
C6_Witness ==
    /\ commits >= 2
    /\ Len(history) = 2
    /\ history[2] # << >>
    /\ lastChange = "undo"
    /\ historyIndex = 0
    /\ shapes = << >>

\* C7: every line, rectangle, circle or triangle in the shape collection or
\* in a history snapshot has exactly 2 points.
C7_CommittedShapesHaveTwoPoints ==
    /\ \A i \in 1..Len(shapes) :
          shapes[i].type \in TwoPointTypes => Len(shapes[i].points) = 2
    /\ \A k \in 1..Len(history) : \A i \in 1..Len(history[k]) :
          history[k][i].type \in TwoPointTypes
              => Len(history[k][i].points) = 2

\* C3: a commit made at index i keeps snapshots 0..i, drops every later
\* one, appends the new shape set at i+1 and sets the index to i+1, the
\* last position; so canRedo is false after a commit and a redo that
\* follows a commit changes nothing.
C3_CommitTruncatesAndAppends ==
    [][ /\ commits' # commits
            => /\ historyIndex' = historyIndex + 1
               /\ Len(history') = historyIndex' + 1
               /\ \A k \in 1..(historyIndex + 1) : history'[k] = history[k]
               /\ history'[historyIndex' + 1] = shapes'
               /\ ~(historyIndex' < Len(history') - 1)
        /\ (handleRedo /\ lastChange \in CommitKinds)
            => UNCHANGED << shapes, history, historyIndex >>
      ]_vars

\* a commit made after an undo: two commits, but only one snapshot after
\* the initial one
C3_Witness ==
    /\ commits = 2
    /\ Len(history) = 2
    /\ historyIndex = 1
    /\ lastChange \in CommitKinds
    /\ ~canRedo

\* C4: undo at index 0 and redo at the last index change neither the
\* shapes nor the history nor the index; canUndo and canRedo are true
\* exactly when undo, respectively redo, changes the index.
C4_BoundaryNoOps ==
    [][ /\ (handleUndo /\ historyIndex = 0)
            => UNCHANGED << shapes, history, historyIndex >>
        /\ (handleRedo /\ historyIndex = Len(history) - 1)
            => UNCHANGED << shapes, history, historyIndex >>
        /\ handleUndo => (canUndo <=> historyIndex' # historyIndex)
        /\ handleRedo => (canRedo <=> historyIndex' # historyIndex)
      ]_vars

\* undone down to index 0 with a drag still in progress: the next undo is
\* at the boundary
C4_Witness ==
    /\ lastChange = "undo"
    /\ historyIndex = 0
    /\ Len(history) = 2
    /\ ~canUndo
    /\ canRedo
    /\ isDragging

\* C5: an undo at index > 0 lowers the index by 1 and a redo below the last
\* index raises it by 1, and the shape collection becomes the snapshot at
\* the new index; after commit(A), commit(B) an undo gives A, a second undo
\* the empty set and a redo A again.
C5_UndoRedoRestoreSnapshot ==
    /\ [][ /\ (handleUndo /\ historyIndex > 0)
               => /\ historyIndex' = historyIndex - 1
                  /\ shapes' = history'[historyIndex' + 1]
           /\ (handleRedo /\ historyIndex < Len(history) - 1)
               => /\ historyIndex' = historyIndex + 1
                  /\ shapes' = history'[historyIndex' + 1]
         ]_vars
    /\ [](( /\ commits = 2
            /\ Len(history) = 3
            /\ lastChange \in { "undo", "redo" } )
           => /\ historyIndex = 1 => shapes = history[2]
              /\ historyIndex = 0 => shapes = << >>
              /\ historyIndex = 2 => shapes = history[3])

\* commit(A), commit(B), undo, undo, redo: back at A
C5_Witness ==
    /\ commits = 2
    /\ Len(history) = 3
    /\ history[2] # history[3]
    /\ lastChange = "redo"
    /\ historyIndex = 1
    /\ shapes = history[2]

\* C8: a delete (Delete key or Delete Shape button) with a selection keeps
\* exactly the shapes whose id is not the selected one, in their order,
\* commits that collection once and clears the selection.
C8_DeleteSelected ==
    [][ ((handleKeyDown("Delete") \/ deleteShapeClick)
            /\ IsSome(selectedShapeId))
        => /\ shapes' = SelectSeq(shapes,
                            LAMBDA sh : sh.id # Val(selectedShapeId))
           /\ (\E i \in 1..Len(shapes) : shapes[i].id = Val(selectedShapeId))
                => Len(shapes') = Len(shapes) - 1
           /\ commits' = commits + 1
           /\ history' = Append(SubSeq(history, 1, historyIndex + 1), shapes')
           /\ historyIndex' = historyIndex + 1
           /\ selectedShapeId' = None
      ]_vars

\* one of two shapes deleted
C8_Witness ==
    /\ lastChange \in { "keyDelete", "deleteClick" }
    /\ selectedShapeId = None
    /\ historyIndex = Len(history) - 1
    /\ historyIndex >= 1
    /\ Len(history[historyIndex]) = 2
    /\ Len(shapes) = 1

\* shape moved by (dx, dy)
Translated(shape, dx, dy) ==
    [ shape EXCEPT !.points =
        [ k \in 1..Len(shape.points) |->
            Pt(RAdd(shape.points[k].x, dx), RAdd(shape.points[k].y, dy)) ] ]

\* C9: each pointer-move of a drag moves every point of the selected shape
\* by the world-space delta since the previous pointer position and leaves
\* its id, type, colour and number of points and every other shape as they
\* are; during and after the gesture the selected shape is displaced by
\* (last pointer - first pointer).
C9_DragTranslates ==
    /\ [][ \A p \in Pointers :
             ( /\ ~isPanning /\ isDragging
               /\ IsSome(selectedShapeId) /\ IsSome(dragStart)
               /\ handleMouseMove(p) )
             => LET point == getCanvasCoordinates(p[1], p[2], zoom, offset)
                    dx == RSub(point.x, Val(dragStart).x)
                    dy == RSub(point.y, Val(dragStart).y)
                IN  /\ Len(shapes') = Len(shapes)
                    /\ \A i \in 1..Len(shapes) :
                          IF shapes[i].id = Val(selectedShapeId)
                          THEN shapes'[i] = Translated(shapes[i], dx, dy)
                          ELSE shapes'[i] = shapes[i]
         ]_vars
    /\ [](IsSome(gesture)
           => LET g == Val(gesture)
              IN  /\ \E i \in 1..Len(shapes) : shapes[i].id = g.shape0.id
                  /\ \A i \in 1..Len(shapes) :
                        shapes[i].id = g.shape0.id
                        => shapes[i] = Translated(g.shape0,
                                                  RSub(g.at.x, g.origin.x),
                                                  RSub(g.at.y, g.origin.y)))

\* a drag of one of two shapes, finished away from where it began, under a
\* zoom other than 1
C9_Witness ==
    /\ IsSome(gesture)
    /\ Val(gesture).done
    /\ Val(gesture).moves >= 1
    /\ Val(gesture).at # Val(gesture).origin
    /\ Len(shapes) = 2
    /\ zoom # R(1)

\* a select-tool, pan-tool or annotate-tool pointer-down, an event of a pan
\* gesture, a tool change or a zoom step
NonCommitEvent ==
    \/ \E p \in Pointers :
         /\ currentTool \in { "select", "pan", "annotate" }
         /\ handleMouseDown(p)
    \/ \E p \in Pointers : isPanning /\ handleMouseMove(p)
    \/ isPanning /\ handleMouseUp
    \/ \E tool \in Tools : setCurrentTool(tool)
    \/ handleZoomIn
    \/ handleZoomOut

\* C10: selection changes, the events of a pan gesture, annotation
\* creation, tool changes and zoom steps leave the history and the history
\* index as they are (stated as: a step that changes either is none of
\* them); the history changes only in a commit.
C10_OnlyCommitsChangeHistory ==
    [][ /\ (history' # history \/ historyIndex' # historyIndex)
            => ~NonCommitEvent
        /\ history' # history => commits' = commits + 1
      ]_vars

\* a finished pan gesture while the history holds an undone snapshot
C10_Witness ==
    /\ offset # Pt(R(100), R(100))
    /\ ~isPanning
    /\ Len(history) = 2
    /\ historyIndex = 0

\* C11: a clear makes exactly one commit of the empty shape set (the history
\* is cut after the index and grows by one entry, the index is the last
\* position, the collection is empty), and the snapshot an undo issued
\* right after it goes back to is the collection from just before the
\* clear; such an undo sets the collection to that snapshot.
C11_ClearCommitsAndIsUndoable ==
    [][ /\ handleClear
            => /\ commits' = commits + 1
               /\ Len(history') = historyIndex + 2
               /\ \A k \in 1..(historyIndex + 1) : history'[k] = history[k]
               /\ history'[Len(history')] = << >>
               /\ historyIndex' = Len(history') - 1
               /\ shapes' = << >>
               /\ historyIndex' > 0
               /\ history'[(historyIndex' - 1) + 1] = shapes
        /\ (handleUndo /\ lastChange = "clear")
            => /\ historyIndex' = historyIndex - 1
               /\ shapes' = history[(historyIndex - 1) + 1]
               /\ history' = history
      ]_vars

\* a shape drawn, the canvas cleared, the clear undone: the shape is back
C11_Witness ==
    /\ lastChange = "undo"
    /\ commits = 2
    /\ Len(history) = 3
    /\ history[3] = << >>
    /\ historyIndex = 1
    /\ Len(shapes) = 1
    /\ shapes = history[2]

\* C12: an undo that is possible leaves the history as it is and lowers the
\* index by one to a position from which a redo is possible and goes back
\* to the collection from before the undo; a redo made right after an undo
\* takes exactly that step, so the collection, the history and the index
\* are those from before the undo.  The same with redo and undo exchanged.
C12_UndoRedoRoundTrip ==
    [][ /\ (handleUndo /\ canUndo)
            => /\ history' = history
               /\ historyIndex' + 1 = historyIndex
               /\ historyIndex' < Len(history') - 1
               /\ history'[(historyIndex' + 1) + 1] = shapes
        /\ (handleRedo /\ canRedo /\ lastChange = "undo")
            => /\ history' = history
               /\ historyIndex' = historyIndex + 1
               /\ shapes' = history[(historyIndex + 1) + 1]
        /\ (handleRedo /\ canRedo)
            => /\ history' = history
               /\ historyIndex' - 1 = historyIndex
               /\ historyIndex' > 0
               /\ history'[(historyIndex' - 1) + 1] = shapes
        /\ (handleUndo /\ canUndo /\ lastChange = "redo")
            => /\ history' = history
               /\ historyIndex' = historyIndex - 1
               /\ shapes' = history[(historyIndex - 1) + 1]
      ]_vars

\* one shape drawn, undone and redone: the shape is back and the index is
\* the last position again
C12_Witness ==
    /\ lastChange = "redo"
    /\ commits = 1
    /\ Len(history) = 2
    /\ historyIndex = 1
    /\ Len(shapes) = 1
    /\ shapes = history[2]

\* C13: a line, rectangle, circle or triangle created at p0 has, after
\* k >= 1 updateShapePoints calls with q1..qk, exactly the points [p0, qk].
C13_TwoPointShapeKeepsAnchorAndLast ==
    LET pr == Val(probe)
    IN  (pr.shape.type \in TwoPointTypes /\ Len(pr.args) >= 1)
            => pr.shape.points = << pr.anchor, pr.args[Len(pr.args)] >>

\* a rectangle after three calls, the first and the last with different
\* points
C13_Witness ==
    /\ IsSome(probe)
    /\ Val(probe).shape.type = "rectangle"
    /\ Len(Val(probe).args) = 3
    /\ Val(probe).args[1] # Val(probe).args[3]
    /\ Val(probe).args[3] # Val(probe).anchor
    /\ Len(Val(probe).shape.points) = 2

\* C14: the points of a freehand shape created at p0 are, after the calls
\* with q1..qN, exactly p0, q1, .., qN: every call appends its point, equal
\* points included, and the sequence has N + 1 points.
C14_FreehandAppendOnly ==
    /\ [](LET pr == Val(probe)
          IN  pr.shape.type = "freehand"
                  => /\ pr.shape.points = << pr.anchor >> \o pr.args
                     /\ Len(pr.shape.points) = Len(pr.args) + 1)
    /\ [][ \A newPoint \in PathPoints :
             (callUpdateShapePoints(newPoint)
                 /\ Val(probe).shape.type = "freehand")
             => Val(probe').shape.points
                    = Append(Val(probe).shape.points, newPoint)
         ]_vars

\* a freehand shape after three calls, two of them in a row with the same
\* point
C14_Witness ==
    /\ IsSome(probe)
    /\ Val(probe).shape.type = "freehand"
    /\ Len(Val(probe).args) = 3
    /\ Val(probe).args[2] = Val(probe).args[3]
    /\ Val(probe).args[1] = Val(probe).anchor
    /\ Len(Val(probe).shape.points) = 4

\* no two positions of a shape sequence hold the same id
UniqueIds(ss) ==
    \A i, j \in 1..Len(ss) : ss[i].id = ss[j].id => i = j

\* the shapes of a collection and of the snapshots of a history
ShapesIn(ss, hist) ==
    { ss[i] : i \in 1..Len(ss) }
        \cup UNION { { hist[k][i] : i \in 1..Len(hist[k]) } :
                        k \in 1..Len(hist) }

\* two shapes that differ at most in where their points lie
SameShapeMoved(s1, s2) ==
    /\ s1.type = s2.type
    /\ s1.color = s2.color
    /\ s1.strokeWidth = s2.strokeWidth
    /\ Len(s1.points) = Len(s2.points)

\* C15: no two shapes of the collection, and no two shapes of one history
\* snapshot, have the same id; an id stays with its shape: shapes with the
\* same id, in the collection or in any snapshot, before or after any
\* step (a drag, an undo, a redo and a delete among them), are the same
\* shape up to its position, and those steps bring in no id that was not
\* there.
C15_IdsUniqueAndStable ==
    /\ [](/\ UniqueIds(shapes)
          /\ \A k \in 1..Len(history) : UniqueIds(history[k]))
    /\ [][ /\ \A s1 \in ShapesIn(shapes, history) :
                \A s2 \in ShapesIn(shapes', history') :
                    s1.id = s2.id => SameShapeMoved(s1, s2)
           /\ lastChange' \in { "drag", "undo", "redo", "keyDelete",
                                "deleteClick" }
                => { sh.id : sh \in ShapesIn(shapes', history') }
                       \subseteq { sh.id : sh \in ShapesIn(shapes, history) }
         ]_vars

\* two shapes, the first one dragged, the drag undone and redone: the
\* snapshots before and after the drag hold the same id at different
\* places
C15_Witness ==
    /\ lastChange = "redo"
    /\ Len(history) = 4
    /\ historyIndex = 3
    /\ Len(shapes) = 2
    /\ shapes[1].id # shapes[2].id
    /\ history[3][1].id = history[4][1].id
    /\ history[3][1].points # history[4][1].points

\* C16: after any sequence of zoom-in and zoom-out steps the zoom factor
\* n/d satisfies 1/10 <= n/d <= 3 and is not 0.
C16_ZoomWithinBounds ==
    LET z == Val(probe).zoom
    IN  /\ z.d > 0
        /\ 10 * z.n >= z.d
        /\ z.n <= 3 * z.d
        /\ z.n # 0

\* seven zoom-ins from 1 reach the cap and the eighth stays there
C16_Witness ==
    /\ IsSome(probe)
    /\ Val(probe).from = R(1)
    /\ Val(probe).steps = 8
    /\ Val(probe).zoom = ZoomMax

\* C17: for every world point p, offset and zoom in [0.1, 3], the canvas
\* position p * zoom + offset mapped back by (screen - offset) / zoom is p
\* (in exact arithmetic).
C17_ToWorldInvertsToScreen ==
    LET pr == Val(probe)
    IN  /\ IsSome(pr.world) => Val(pr.world) = pr.p
        /\ IsSome(pr.screen)
              => /\ Val(pr.screen).x
                      = RAdd(RMul(pr.p.x, pr.zoom), pr.offset.x)
                 /\ Val(pr.screen).y
                      = RAdd(RMul(pr.p.y, pr.zoom), pr.offset.y)

\* a point with a negative and a fractional coordinate mapped there and
\* back under the smallest zoom and a panned offset
C17_Witness ==
    /\ IsSome(probe)
    /\ Val(probe).p = Pt(Rat(-7, 2), R(3))
    /\ Val(probe).zoom = ZoomMin
    /\ Val(probe).offset = Pt(R(112), R(116))
    /\ IsSome(Val(probe).screen)
    /\ Val(Val(probe).screen) # Val(probe).p
    /\ IsSome(Val(probe).world)

\* the smaller and the larger of two integers
IMin(i, j) == IF i <= j THEN i ELSE j

IMax(i, j) == IF i >= j THEN i ELSE j

\* the probe is a shape of the given type from a to b queried at p
HitCase(type, a, b, p) ==
    /\ IsSome(probe)
    /\ IsSome(Val(probe).hit)
    /\ Val(probe).shape.type = type
    /\ Val(probe).shape.points = << a, b >>
    /\ Val(probe).point = p

\* C18: a rectangle with corners a and b in any order is hit at p exactly
\* when min(a.x, b.x) <= p.x <= max(a.x, b.x) and min(a.y, b.y) <= p.y <=
\* max(a.y, b.y); with corners (0,0) and (100,50), (50,25) is hit and
\* (150,25) is not; the corners swapped give the same result.
C18_RectangleHitTest ==
    LET pr == Val(probe)
        a == pr.shape.points[1]
        b == pr.shape.points[2]
        p == pr.point
    IN  (pr.shape.type = "rectangle" /\ IsSome(pr.hit))
        => /\ Val(pr.hit)
                <=> /\ IMin(a.x.n, b.x.n) <= p.x.n
                    /\ p.x.n <= IMax(a.x.n, b.x.n)
                    /\ IMin(a.y.n, b.y.n) <= p.y.n
                    /\ p.y.n <= IMax(a.y.n, b.y.n)
           /\ Val(pr.hit)
                <=> isPointInShape(p, [ pr.shape EXCEPT !.points = << b, a >> ])
           /\ HitCase("rectangle", Pt(R(0), R(0)), Pt(R(100), R(50)),
                      Pt(R(50), R(25))) => Val(pr.hit)
           /\ HitCase("rectangle", Pt(R(0), R(0)), Pt(R(100), R(50)),
                      Pt(R(150), R(25))) => ~Val(pr.hit)

\* a rectangle drawn from its bottom-right to its top-left corner, hit at
\* a corner
C18_Witness ==
    /\ HitCase("rectangle", Pt(R(100), R(50)), Pt(R(0), R(0)),
               Pt(R(100), R(50)))
    /\ Val(Val(probe).hit)

\* the square of the distance of two points with integer coordinates
IDistSq(p, q) ==
    (p.x.n - q.x.n) * (p.x.n - q.x.n) + (p.y.n - q.y.n) * (p.y.n - q.y.n)

\* sqrt(big) - sqrt(small) < t for integers big >= small >= 0: with
\* m = big - small - t*t, m < 0 or m*m < 4*t*t*small
ISqrtGapLt(big, small, t) ==
    LET m == big - small - t * t
    IN  m < 0 \/ m * m < 4 * t * t * small

\* C19: a circle with centre c and edge point e is hit at p exactly when
\* |distance(p, c) - distance(e, c)| < 10, a ring and not a disk; with
\* centre (0,0) and edge (10,0), (10,0) is hit and (0,0) and (20,0) are
\* not.
C19_CircleRingTest ==
    LET pr == Val(probe)
        c == pr.shape.points[1]
        e == pr.shape.points[2]
        p == pr.point
        dSq == IDistSq(p, c)
        rSq == IDistSq(e, c)
    IN  (pr.shape.type = "circle" /\ IsSome(pr.hit))
        => /\ Val(pr.hit)
                <=> ISqrtGapLt(IMax(dSq, rSq), IMin(dSq, rSq), Tolerance)
           /\ HitCase("circle", Pt(R(0), R(0)), Pt(R(10), R(0)),
                      Pt(R(10), R(0))) => Val(pr.hit)
           /\ HitCase("circle", Pt(R(0), R(0)), Pt(R(10), R(0)),
                      Pt(R(0), R(0))) => ~Val(pr.hit)
           /\ HitCase("circle", Pt(R(0), R(0)), Pt(R(10), R(0)),
                      Pt(R(20), R(0))) => ~Val(pr.hit)

\* a circle of radius 6 is hit at distance 8 from its centre, outside
\* the circle but within the tolerance
C19_Witness ==
    /\ HitCase("circle", Pt(R(0), R(0)), Pt(R(6), R(0)), Pt(R(0), R(8)))
    /\ Val(Val(probe).hit)

\* C20: a triangle whose anchor and terminal point have the same x or the
\* same y (the two equal among them) has collinear vertices and is hit at
\* no query point, the points of the segment it degenerates to included;
\* the test gives false, never true and never an error.
C20_DegenerateTriangleNeverHit ==
    LET pr == Val(probe)
        a == pr.shape.points[1]
        b == pr.shape.points[2]
    IN  ( /\ pr.shape.type = "triangle"
          /\ a.x = b.x \/ a.y = b.y
          /\ IsSome(pr.hit) )
        => Val(pr.hit) = FALSE

\* a flat triangle from (0,0) to (100,0) queried at (50,0), a point of the
\* segment
C20_Witness ==
    /\ HitCase("triangle", Pt(R(0), R(0)), Pt(R(100), R(0)), Pt(R(50), R(0)))
    /\ Val(Val(probe).hit) = FALSE

\* C21: a malformed shape is never hit: isPointInShape gives false at every
\* query point for a line, rectangle, circle or triangle with fewer than 2
\* points and for a freehand shape with no point (the result is a boolean:
\* the missing points are never read).
C21_MalformedShapeNeverHit ==
    LET pr == Val(probe)
    IN  ( /\ IsSome(pr.hit)
          /\ \/ /\ pr.shape.type \in TwoPointTypes
                /\ Len(pr.shape.points) < 2
             \/ /\ pr.shape.type = "freehand"
                /\ Len(pr.shape.points) = 0 )
        => Val(pr.hit) = FALSE

\* a rectangle with the single point (0,0) queried at (0,0) and not hit,
\* where a freehand shape with that single point is hit
C21_Witness ==
    /\ IsSome(probe)
    /\ Val(probe).shape.type = "rectangle"
    /\ Val(probe).shape.points = << Pt(R(0), R(0)) >>
    /\ Val(probe).point = Pt(R(0), R(0))
    /\ Val(probe).hit = Some(FALSE)
    /\ isPointInShape(Val(probe).point,
                      [ Val(probe).shape EXCEPT !.type = "freehand" ])

\* C22: a pointer-up that ends a drawing gesture makes exactly one commit,
\* of the previous collection with the finished shape appended as its last
\* element (the earlier shapes as they were, in their order), discards the
\* in-progress shape and leaves the machine Idle; while a shape is in
\* progress, no shape of the collection or of a history snapshot has its id.
C22_DrawPointerUpAppendsAndCommits ==
    /\ [][ ( /\ isDrawing /\ IsSome(currentShape) /\ ~isPanning
             /\ handleMouseUp )
           => /\ commits' = commits + 1
              /\ shapes' = Append(shapes, Val(currentShape))
              /\ SubSeq(shapes', 1, Len(shapes)) = shapes
              /\ shapes'[Len(shapes')] = Val(currentShape)
              /\ history' = Append(SubSeq(history, 1, historyIndex + 1),
                                   shapes')
              /\ historyIndex' = Len(history') - 1
              /\ currentShape' = None
              /\ Idle'
         ]_vars
    /\ [](IsSome(currentShape)
           => /\ \A i \in 1..Len(shapes) :
                    shapes[i].id # Val(currentShape).id
              /\ \A k \in 1..Len(history) : \A i \in 1..Len(history[k]) :
                    history[k][i].id # Val(currentShape).id)

\* a second rectangle, drawn with a pointer-move, just appended to the
\* first
C22_Witness ==
    /\ lastChange = "draw"
    /\ Idle
    /\ currentShape = None
    /\ Len(shapes) = 2
    /\ Len(shapes[2].points) = 2
    /\ shapes[2].id = nextUuid
    /\ historyIndex = Len(history) - 1
    /\ history[historyIndex + 1] = shapes
    /\ history[historyIndex] = << shapes[1] >>

\* C23: a select-tool pointer-down selects the shape of lowest array index
\* among those whose hit test contains the world point, sets isDragging and
\* sets the drag start to that point; when no shape contains the point it
\* clears the selection and starts no drag (the gesture flags stay as they
\* are, so an Idle machine stays Idle).  The shapes and the history stay as
\* they are in both cases.
C23_SelectFirstMatch ==
    [][ \A p \in Pointers :
          (currentTool = "select" /\ handleMouseDown(p))
          => LET point == getCanvasCoordinates(p[1], p[2], zoom, offset)
                 hits == { i \in 1..Len(shapes) :
                             isPointInShape(point, shapes[i]) }
             IN  /\ IF hits # { }
                    THEN /\ \E i \in hits :
                              /\ \A j \in hits : i <= j
                              /\ selectedShapeId' = Some(shapes[i].id)
                         /\ isDragging'
                         /\ dragStart' = Some(point)
                    ELSE /\ selectedShapeId' = None
                         /\ UNCHANGED << isDragging, dragStart >>
                         /\ Idle => Idle'
                 /\ UNCHANGED << shapes, history, historyIndex, isDrawing,
                                 currentShape, isPanning >>
      ]_vars

\* a pointer-down on a point that two shapes contain: the first is
\* selected and the drag begins there
C23_Witness ==
    /\ IsSome(gesture)
    /\ Val(gesture).moves = 0
    /\ ~Val(gesture).done
    /\ isDragging
    /\ dragStart = Some(Val(gesture).origin)
    /\ Len(shapes) = 2
    /\ isPointInShape(Val(dragStart), shapes[1])
    /\ isPointInShape(Val(dragStart), shapes[2])
    /\ selectedShapeId = Some(shapes[1].id)

\* C24: a Delete key event with a selection takes effect only in Idle:
\* while isDrawing, isDragging or isPanning is set it changes neither the
\* shapes, nor the history, nor the selection.
C24_DeleteOnlyInIdle ==
    [][ (~Idle /\ IsSome(selectedShapeId) /\ handleKeyDown("Delete"))
        => UNCHANGED << shapes, history, historyIndex, selectedShapeId >>
      ]_vars

\* C25: a draw or drag gesture whose pointer-up never arrives is abandoned
\* at the next pointer-down: the machine holds nothing of the old gesture
\* when the new one starts (isDrawing and isDragging are set only as the
\* new pointer-down sets them from Idle, the old in-progress shape is
\* discarded), so that no later event commits that shape.
C25_MissingPointerUpAbandonsGesture ==
    [][ \A p \in Pointers :
          ((isDrawing \/ isDragging) /\ handleMouseDown(p))
          => LET point == getCanvasCoordinates(p[1], p[2], zoom, offset)
             IN  /\ isDrawing' = (currentTool \in DrawingTools)
                 /\ isDragging'
                      = /\ currentTool = "select"
                        /\ \E i \in 1..Len(shapes) :
                              isPointInShape(point, shapes[i])
                 /\ IsSome(currentShape) => currentShape' # currentShape
      ]_vars

\* C26: an annotate-tool pointer-down whose prompt gives no text (empty or
\* cancelled) leaves the annotations as they are; with a text it appends
\* exactly one annotation, at the world point and with that text, after the
\* existing ones, which stay as they are and in their order; in both cases
\* the shapes, the selection, the history and the gesture state stay as
\* they are.
C26_AnnotateAppendsOrDiscards ==
    [][ \A p \in Pointers, text \in PromptResults :
          ( /\ currentTool = "annotate"
            /\ handleMouseDown(p)
            /\ MouseDownAnnotate(p, text) )
          => LET point == getCanvasCoordinates(p[1], p[2], zoom, offset)
             IN  /\ IF text = None \/ text = Some("")
                    THEN annotations' = annotations
                    ELSE /\ Len(annotations') = Len(annotations) + 1
                         /\ SubSeq(annotations', 1, Len(annotations))
                              = annotations
                         /\ annotations'[Len(annotations')].x = point.x
                         /\ annotations'[Len(annotations')].y = point.y
                         /\ annotations'[Len(annotations')].text = Val(text)
                 /\ UNCHANGED << shapes, selectedShapeId, history,
                                 historyIndex, isDrawing, currentShape,
                                 isPanning, isDragging, dragStart >>
      ]_vars

\* two annotations made at different world points, the history left as it
\* began
C26_Witness ==
    /\ Len(annotations) = 2
    /\ annotations[1].id # annotations[2].id
    /\ << annotations[1].x, annotations[1].y >>
         # << annotations[2].x, annotations[2].y >>
    /\ annotations[2].text # ""
    /\ currentTool = "annotate"
    /\ Idle
    /\ historyIndex = 0

\* C27: stored snapshots are isolated from later edits: every step leaves
\* the content of each history position as it is, unless a commit truncates
\* that position away (a position after the index); so an undo to a
\* position restores exactly the shapes, with their point coordinates, that
\* were committed there.  (The code's edits build new arrays and objects
\* with map, filter and spread and write into none, so snapshots are
\* modelled as values.)
C27_SnapshotsIsolated ==
    [][ /\ \A k \in 1..Len(history) :
              \/ k <= Len(history') /\ history'[k] = history[k]
              \/ k > historyIndex + 1 /\ commits' = commits + 1
        /\ (canUndo /\ handleUndo)
              => /\ shapes' = history[historyIndex]
                 /\ history' = history
      ]_vars

\* a shape drawn, dragged away and the drag undone: the snapshot of the
\* draw holds the shape where it was drawn, and the shapes are that snapshot
C27_Witness ==
    /\ lastChange = "undo"
    /\ Len(history) = 3
    /\ historyIndex = 1
    /\ Len(history[2]) = 1
    /\ Len(history[3]) = 1
    /\ history[2][1].id = history[3][1].id
    /\ history[2][1].points # history[3][1].points
    /\ shapes = history[2]

\* C28: in every reachable state the shape collection is the history
\* snapshot at the history index (shapes = history[index]), whatever the
\* interleaving of draw, drag, delete, clear, undo and redo events.
C28_ShapesAreCurrentSnapshot ==
    /\ historyIndex + 1 \in 1..Len(history)
    /\ shapes = history[historyIndex + 1]

\* a shape drawn and deleted, the delete undone and redone
C28_Witness ==
    /\ lastChange = "redo"
    /\ historyIndex = 2
    /\ Len(history) = 3
    /\ Len(history[2]) = 1
    /\ history[3] = << >>
    /\ shapes = << >>

\* C29: in every reachable state the selected shape id is null or the id
\* of a shape of the current collection, after undo, redo, clear and delete
\* as well.
C29_SelectionNotDangling ==
    IsSome(selectedShapeId)
        => \E i \in 1..Len(shapes) : shapes[i].id = Val(selectedShapeId)

\* C30: the interaction flags are mutually exclusive in every reachable
\* state: at most one of isPanning, isDrawing and isDragging is set,
\* currentShape is non-null only while isDrawing and dragStart is non-null
\* only while isDragging, for every sequence of pointer events and tool
\* changes.
C30_FlagsMutuallyExclusive ==
    /\ ~(isPanning /\ isDrawing)
    /\ ~(isPanning /\ isDragging)
    /\ ~(isDrawing /\ isDragging)
    /\ IsSome(currentShape) => isDrawing
    /\ IsSome(dragStart) => isDragging

\* C31: undo and redo change only the shape collection and the history
\* index: the annotations, the selected shape id, the current tool, the
\* zoom, the offset (and the history and the gesture state) are as before;
\* a clear empties the annotations and the undo of that clear does not
\* bring them back.
C31_UndoRedoFrame ==
    [][ /\ (handleUndo \/ handleRedo)
            => UNCHANGED << annotations, selectedShapeId, currentTool, zoom,
                            offset, history, canvasVars >>
        /\ handleClear => annotations' = << >>
        /\ (lastChange = "clear" /\ annotations = << >> /\ handleUndo)
            => annotations' = << >>
      ]_vars

\* an annotation made, a rectangle drawn, both cleared and the clear
\* undone under a zoom other than 1: the rectangle is back, the annotation
\* is not
C31_Witness ==
    /\ lastChange = "undo"
    /\ annotations = << >>
    /\ Len(shapes) = 1
    /\ nextUuid = 2
    /\ historyIndex = 1
    /\ Len(history) = 3
    /\ history[3] = << >>
    /\ zoom # R(1)

=============================================================================
